---------------------------- MODULE Spec2Model ----------------------------
(***************************************************************************)
(* Model of app/doc/doc_constructor_agent.py: the chunker, the four table  *)
(* interpreters, the section resolver, the flow extractor and the document *)
(* builder.  A Python str is a sequence of one-character strings; None is  *)
(* kept apart from the empty string by an option record.                   *)
(***************************************************************************)
EXTENDS Integers, Sequences, FiniteSets, TLC

VARIABLES
    content,             \* build_document: the list of {section_name, content}
    sections,            \* build_document: the list of {title}
    flow_diagram_agent,  \* build_document: "absent" (None) or the agent's behaviour
    doc,                 \* the Document: the sequence of blocks added so far
    i,                   \* build_document: index (0-based) of the section at hand
    sec_content,         \* build_document: the resolved content (an option)
    chunks,              \* build_document: the chunk list of the section at hand
    ci,                  \* build_document: chunks of that list already rendered
    pc,                  \* position in the function under check
    arg,                 \* argument of the pure function under check
    orig,                \* the table arg was written from (round trip), or NoTable
    ret                  \* result of the pure function under check

vars == <<content, sections, flow_diagram_agent, doc, i, sec_content, chunks, ci,
          pc, arg, orig, ret>>

-----------------------------------------------------------------------------
(* Bounds *)

MaxTextLen == 6
MaxLines == 3
MaxCols == 2
MaxRows == 1
MaxFlowToks == 4
MaxSections == 2
MaxContent == 1

-----------------------------------------------------------------------------
(* Python str operations, as the code uses them *)

NL == "\n"
TAB == "\t"

\* The characters str.strip() removes and \s matches, among those modelled.
Whitespace == {" ", TAB, NL}

SeqsUpTo(S, n) == UNION {[1..k -> S] : k \in 0..n}

SeqsFromTo(S, m, n) == UNION {[1..k -> S] : k \in m..n}

RECURSIVE Concat(_)
Concat(ss) == IF ss = <<>> THEN <<>> ELSE Head(ss) \o Concat(Tail(ss))

RECURSIVE LStripChars(_, _)
LStripChars(s, cs) ==
    IF s # <<>> /\ Head(s) \in cs THEN LStripChars(Tail(s), cs) ELSE s

RECURSIVE RStripChars(_, _)
RStripChars(s, cs) ==
    IF s # <<>> /\ s[Len(s)] \in cs
    THEN RStripChars(SubSeq(s, 1, Len(s) - 1), cs)
    ELSE s

\* s.strip(chars)
StripChars(s, cs) == RStripChars(LStripChars(s, cs), cs)

\* s.strip()
Strip(s) == StripChars(s, Whitespace)

\* s.split(sep) for a one-character sep: always at least one field.
RECURSIVE SplitOn(_, _)
SplitOn(s, sep) ==
    IF \E k \in 1..Len(s) : s[k] = sep
    THEN LET k == CHOOSE k \in 1..Len(s) :
                      s[k] = sep /\ \A j \in 1..(k - 1) : s[j] # sep
         IN  <<SubSeq(s, 1, k - 1)>> \o SplitOn(SubSeq(s, k + 1, Len(s)), sep)
    ELSE <<s>>

\* s.splitlines(): no line for the empty string, none after a final line break.
SplitLines(s) ==
    LET parts == SplitOn(s, NL)
    IN  IF parts[Len(parts)] = <<>> THEN SubSeq(parts, 1, Len(parts) - 1) ELSE parts

\* sep.join(parts)
RECURSIVE Join(_, _)
Join(parts, sep) ==
    IF parts = <<>> THEN <<>>
    ELSE IF Len(parts) = 1 THEN parts[1]
    ELSE parts[1] \o sep \o Join(Tail(parts), sep)

\* s.count(c)
Count(s, c) == Cardinality({k \in 1..Len(s) : s[k] = c})

\* s.startswith(p)
StartsWith(s, p) == Len(s) >= Len(p) /\ SubSeq(s, 1, Len(p)) = p

\* s.endswith(p)
EndsWith(s, p) == Len(s) >= Len(p) /\ SubSeq(s, Len(s) - Len(p) + 1, Len(s)) = p

\* p in s
Contains(s, p) ==
    \E k \in 1..(Len(s) - Len(p) + 1) : SubSeq(s, k, k + Len(p) - 1) = p

UpperCase == <<"A", "B", "C", "D", "E", "F", "G", "H", "I", "J", "K", "L", "M",
               "N", "O", "P", "Q", "R", "S", "T", "U", "V", "W", "X", "Y", "Z">>

LowerCase == <<"a", "b", "c", "d", "e", "f", "g", "h", "i", "j", "k", "l", "m",
               "n", "o", "p", "q", "r", "s", "t", "u", "v", "w", "x", "y", "z">>

LowerChar(c) ==
    IF \E k \in 1..26 : UpperCase[k] = c
    THEN LowerCase[CHOOSE k \in 1..26 : UpperCase[k] = c]
    ELSE c

\* s.lower()
Lower(s) == [k \in 1..Len(s) |-> LowerChar(s[k])]

\* [xs[k] for k in range(len(xs)) if k in idx]: the elements at the indices
\* idx, in order.
Pick(xs, idx) ==
    LET F[k \in 0..Len(xs)] ==
            IF k = 0 THEN <<>>
            ELSE IF k \in idx THEN Append(F[k - 1], xs[k]) ELSE F[k - 1]
    IN  F[Len(xs)]

\* [l.strip() for l in ls]
StripAll(ls) == [k \in 1..Len(ls) |-> Strip(ls[k])]

\* [l for l in ls if l.strip()]
NonBlank(ls) == Pick(ls, {k \in 1..Len(ls) : Strip(ls[k]) # <<>>})

\* Python truthiness of a str or a list: non-empty.
Truthy(s) == s # <<>>

-----------------------------------------------------------------------------
(* Option values: None or a value *)

None == [some |-> FALSE, val |-> <<>>]

Some(v) == [some |-> TRUE, val |-> v]

-----------------------------------------------------------------------------
(* find_all_table_like_chunks *)

HasPipe(l) == Count(l, "|") >= 1

\* flush(par, typ): the chunk appended, if any.
flush(par, typ) ==
    LET s == Strip(Join(par, <<NL>>))
    IN  IF Truthy(s) THEN <<[typ |-> typ, value |-> s]>> ELSE <<>>

\* Last index of the table block that starts at line k: the inner while loop.
RECURSIVE TableEnd(_, _)
TableEnd(lines, k) ==
    IF k + 1 <= Len(lines) /\ HasPipe(lines[k + 1]) /\ Truthy(Strip(lines[k + 1]))
    THEN TableEnd(lines, k + 1)
    ELSE k

\* ChunkFrom with the index advanced once more after a table block.
RECURSIVE ChunkFrom_SkipsLineAfterTable(_, _)
ChunkFrom_SkipsLineAfterTable(lines, k) ==
    IF k > Len(lines) THEN <<>>
    ELSE LET l == lines[k]
         IN  IF HasPipe(l) /\ Truthy(Strip(l))
                /\ k + 1 <= Len(lines) /\ HasPipe(lines[k + 1])
             THEN LET e == TableEnd(lines, k)
                  IN  flush(SubSeq(lines, k, e), "table")
                      \o ChunkFrom_SkipsLineAfterTable(lines, e + 2)
             ELSE (IF Truthy(Strip(l)) THEN flush(<<l>>, "text") ELSE <<>>)
                  \o ChunkFrom_SkipsLineAfterTable(lines, k + 1)

\* The outer while loop from line k (1-based) on.
RECURSIVE ChunkFrom(_, _)
ChunkFrom(lines, k) ==
    IF k > Len(lines) THEN <<>>
    ELSE LET l == lines[k]
         IN  IF HasPipe(l) /\ Truthy(Strip(l))
                /\ k + 1 <= Len(lines) /\ HasPipe(lines[k + 1])
             THEN LET e == TableEnd(lines, k)
                  IN  flush(SubSeq(lines, k, e), "table") \o ChunkFrom(lines, e + 1)
             ELSE (IF Truthy(Strip(l)) THEN flush(<<l>>, "text") ELSE <<>>)
                  \o ChunkFrom(lines, k + 1)

find_all_table_like_chunks(text) ==
    IF ~Truthy(text) \/ ~Truthy(Strip(text)) THEN <<>>
    ELSE ChunkFrom(SplitLines(text), 1)

-----------------------------------------------------------------------------
(* The table interpreters.  A result is (colnames, rows) or (None, None). *)

ParseNone == [ok |-> FALSE, colnames |-> <<>>, rows |-> <<>>]

Parsed(colnames, rows) == [ok |-> TRUE, colnames |-> colnames, rows |-> rows]

\* [l.strip() for l in table_md.strip().splitlines() if l.strip()]
NonBlankLines(table_md) == StripAll(NonBlank(SplitLines(Strip(table_md))))

\* all(len(r) == n for r in rows)
AllLen(rows, n) == \A k \in 1..Len(rows) : Len(rows[k]) = n

\* re.match(r'^[-:\s|]+$', s)
DividerRow(s) ==
    /\ s # <<>>
    /\ \A k \in 1..Len(s) : s[k] \in ({"-", ":", "|"} \cup Whitespace)

\* re.match(r'^-+(\s*\|\s*-+)+$', s), as the automaton of the expression:
\* "dash0" inside the leading dashes, "gap" in the blanks before a bar, "bar"
\* after a bar, "dash" inside a later run of dashes (accepting).
DividerStep(q, c) ==
    CASE q = "start" /\ c = "-" -> "dash0"
      [] q \in {"dash0", "dash"} /\ c = "-" -> q
      [] q \in {"dash0", "dash", "gap"} /\ c \in Whitespace -> "gap"
      [] q \in {"dash0", "dash", "gap"} /\ c = "|" -> "bar"
      [] q = "bar" /\ c \in Whitespace -> "bar"
      [] q = "bar" /\ c = "-" -> "dash"
      [] OTHER -> "fail"

GithubDivider(s) ==
    LET \* '$' also matches before one final line break
        t == IF s # <<>> /\ s[Len(s)] = NL THEN SubSeq(s, 1, Len(s) - 1) ELSE s
        Q[k \in 0..Len(t)] == IF k = 0 THEN "start" ELSE DividerStep(Q[k - 1], t[k])
    IN  Q[Len(t)] = "dash"

\* [c.strip() for c in l.split('|')]
PipeCells(l) == StripAll(SplitOn(l, "|"))

\* [cell.strip() for cell in l.strip('|').split('|')]
BarStrippedCells(l) == PipeCells(StripChars(l, {"|"}))

\* [PipeCells(l) for l in lines]
PipeRows(lines) == [k \in 1..Len(lines) |-> PipeCells(lines[k])]

\* [BarStrippedCells(l) for l in lines]
BarStrippedRows(lines) == [k \in 1..Len(lines) |-> BarStrippedCells(lines[k])]

\* [l for l in lines if '|' in l]
WithPipe(lines) == Pick(lines, {k \in 1..Len(lines) : HasPipe(lines[k])})

\* del rows[k]
DelAt(rows, k) == SubSeq(rows, 1, k - 1) \o SubSeq(rows, k + 1, Len(rows))

\* The check on the header line alone (line 66).
EnclosedInBars(lines) == StartsWith(lines[1], <<"|">>) /\ EndsWith(lines[1], <<"|">>)

\* IsDividerLine with the second row deleted whatever it holds.
IsDividerLine_Always(lines) == TRUE

\* Whether rows[1] is taken for the divider and deleted (line 71).
IsDividerLine(lines) == DividerRow(lines[2])

\* Lines 68-72: the rows, the divider removed.
MarkdownRows(lines) ==
    IF IsDividerLine(lines)
    THEN DelAt(BarStrippedRows(lines), 2)
    ELSE BarStrippedRows(lines)

\* CheckedTable without the check of the row lengths.
CheckedTable_Unchecked(rows) == Parsed(rows[1], Tail(rows))

\* colnames, data_rows = rows[0], rows[1:], returned if every data row has
\* the length of colnames.
CheckedTable(rows) ==
    IF AllLen(Tail(rows), Len(rows[1])) THEN Parsed(rows[1], Tail(rows)) ELSE ParseNone

\* parse_markdown_table from line 64 on.
MarkdownTable(lines) ==
    IF Len(lines) < 2 THEN ParseNone
    ELSE IF ~EnclosedInBars(lines) THEN ParseNone
    ELSE CheckedTable(MarkdownRows(lines))

parse_markdown_table(table_md) == MarkdownTable(NonBlankLines(table_md))

\* parse_github_style_table from line 80 on.
GithubTable(lines) ==
    IF Len(lines) < 2 THEN ParseNone
    ELSE IF ~GithubDivider(lines[2]) THEN ParseNone
    ELSE CheckedTable(<<PipeCells(lines[1])>>
                      \o PipeRows(WithPipe(SubSeq(lines, 3, Len(lines)))))

parse_github_style_table(table_md) == GithubTable(NonBlankLines(table_md))

\* [l for l in ls if '|' in l and not re.match(divider, l)]
NoDividers(ls) ==
    Pick(ls, {k \in 1..Len(ls) : HasPipe(ls[k]) /\ ~GithubDivider(ls[k])})

\* The lines parse_simple_pipe_table keeps (line 95).
SimplePipeLines(table_md) == StripAll(NoDividers(SplitLines(Strip(table_md))))

\* parse_simple_pipe_table from line 96 on.
SimplePipeTable(lines) ==
    IF Len(lines) < 2 THEN ParseNone ELSE CheckedTable(PipeRows(lines))

parse_simple_pipe_table(table_md) == SimplePipeTable(SimplePipeLines(table_md))

\* re.split(r'  +', s): the fields between the runs of two or more spaces.
RECURSIVE SplitSpaces(_)
SplitSpaces(s) ==
    IF \E k \in 1..(Len(s) - 1) : s[k] = " " /\ s[k + 1] = " "
    THEN LET k == CHOOSE k \in 1..(Len(s) - 1) :
                      /\ s[k] = " " /\ s[k + 1] = " "
                      /\ \A j \in 1..(k - 1) : ~(s[j] = " " /\ s[j + 1] = " ")
         IN  <<SubSeq(s, 1, k - 1)>>
             \o SplitSpaces(LStripChars(SubSeq(s, k, Len(s)), {" "}))
    ELSE <<s>>

\* The split parse_any_delim_table makes for one entry of `delimiters`.
DelimSplit(l, delim) ==
    IF delim = "  +" THEN SplitSpaces(l) ELSE SplitOn(l, delim)

delimiters == <<"|", TAB, "  +">>

\* rows for one delimiter (lines 114-117).
DelimRows(lines, delim) == [k \in 1..Len(lines) |-> DelimSplit(lines[k], delim)]

\* return rows[0], rows[1:]
HeaderAndRest(rows) == Parsed(rows[1], Tail(rows))

\* The loop of lines 112-122 over the rows each delimiter gives.
FirstFitting(cands) ==
    IF \E d \in 1..Len(cands) : AllLen(cands[d], Len(cands[d][1]))
    THEN HeaderAndRest(cands[CHOOSE d \in 1..Len(cands) :
                           /\ AllLen(cands[d], Len(cands[d][1]))
                           /\ \A e \in 1..(d - 1) : ~AllLen(cands[e], Len(cands[e][1]))])
    ELSE ParseNone

\* parse_any_delim_table from line 110 on.
AnyDelimTable(lines) ==
    IF Len(lines) < 2 THEN ParseNone
    ELSE FirstFitting([d \in 1..Len(delimiters) |-> DelimRows(lines, delimiters[d])])

parse_any_delim_table(table_md) == AnyDelimTable(NonBlankLines(table_md))

-----------------------------------------------------------------------------
(* extract_arrow_flow *)

Arrow == <<"-", ">">>

\* The prefixes of line 130.
NoisePrefixes ==
    {<<"d", "i", "a", "g", "r", "a", "m">>, <<"f", "l", "o", "w">>,
     <<"l", "e", "g", "e", "n", "d">>, <<"#">>}

\* The backquote character, which a TLA+ string cannot hold.
BACKQUOTE == "bq"

\* line.strip(backquote and space).strip()
FlowLineStrip(line) == Strip(StripChars(line, {BACKQUOTE, " "}))

\* The test of line 130 on a stripped line.
Qualifies(line) ==
    /\ Contains(line, Arrow)
    /\ ~\E p \in NoisePrefixes : StartsWith(Lower(line), p)

\* [line.strip(backquote and space).strip() for line in ls]
FlowLines(ls) == [k \in 1..Len(ls) |-> FlowLineStrip(ls[k])]

\* Lines 128-134 over the stripped lines.
FirstQualifying(lines, text) ==
    IF \E k \in 1..Len(lines) : Qualifies(lines[k])
    THEN lines[CHOOSE k \in 1..Len(lines) :
                   Qualifies(lines[k]) /\ \A j \in 1..(k - 1) : ~Qualifies(lines[j])]
    ELSE IF Contains(text, Arrow) THEN Strip(text)
    ELSE <<>>

extract_arrow_flow(text) ==
    IF ~Truthy(text) THEN <<>>
    ELSE FirstQualifying(FlowLines(SplitLines(text)), text)

-----------------------------------------------------------------------------
(* Document blocks and the fixed texts of build_document *)

MainTitle ==
    <<"T", "e", "c", "h", "n", "i", "c", "a", "l", " ", "S", "p", "e", "c",
      "i", "f", "i", "c", "a", "t", "i", "o", "n", " ", "D", "o", "c", "u",
      "m", "e", "n", "t">>

FlowDiagramTitle ==
    <<"f", "l", "o", "w", " ", "d", "i", "a", "g", "r", "a", "m">>

Placeholder ==
    <<"[", "F", "l", "o", "w", " ", "d", "i", "a", "g", "r", "a", "m", " ",
      "n", "o", "t", " ", "a", "v", "a", "i", "l", "a", "b", "l", "e", "]">>

Attribution ==
    <<NL, "D", "o", "c", "u", "m", "e", "n", "t", " ", "g", "e", "n", "e",
      "r", "a", "t", "e", "d", " ", "b", "y", " ", "P", "W", "C", " ", "A",
      "I", "-", "p", "o", "w", "e", "r", "e", "d", " ", "A", "B", "A", "P",
      " ", "T", "e", "c", "h", " ", "S", "p", "e", "c", " ", "A", "s", "s",
      "i", "s", "t", "a", "n", "t", ".">>

Heading(text, level) == [kind |-> "heading", level |-> level, text |-> text]

Paragraph(text) == [kind |-> "paragraph", text |-> text]

\* add_table: one header row of the column names, one row per data row.
Table(colnames, rows) == [kind |-> "table", header |-> colnames, rows |-> rows]

Picture(img) == [kind |-> "picture", img |-> img]

Digits == <<"0", "1", "2", "3", "4", "5", "6", "7", "8", "9">>

\* str(n) for n >= 0
RECURSIVE IntStr(_)
IntStr(n) == IF n < 10 THEN <<Digits[n + 1]>> ELSE IntStr(n \div 10) \o <<Digits[(n % 10) + 1]>>

\* Header numbered from 0.
Header_ZeroBased(idx, title) == IntStr(idx) \o <<".", " ">> \o title

\* f"{i+1}. {title}"
Header(idx, title) == IntStr(idx + 1) \o <<".", " ">> \o title

-----------------------------------------------------------------------------
(* find_section_content *)

\* s.lower().strip()
Normalise(s) == Strip(Lower(s))

NameMatches(sec, section_title) == Normalise(sec.section_name) = Normalise(section_title)

\* find_section_content returning the first entry, matching or not.
find_section_content_FirstEntry(content_list, section_title) ==
    IF content_list # <<>> THEN Some(content_list[1].content) ELSE None

find_section_content(content_list, section_title) ==
    IF \E k \in 1..Len(content_list) : NameMatches(content_list[k], section_title)
    THEN Some(content_list[CHOOSE k \in 1..Len(content_list) :
                  /\ NameMatches(content_list[k], section_title)
                  /\ \A j \in 1..(k - 1) : ~NameMatches(content_list[j], section_title)].content)
    ELSE None

-----------------------------------------------------------------------------
(* build_document *)

Agents == {"absent", "raises", "returns_none", "returns_image"}

\* title.strip().lower() == "flow diagram"
IsFlowDiagram(title) == Lower(Strip(title)) = FlowDiagramTitle

\* flow_diagram_agent.run(flow_line): an exception, nothing, or the image of
\* the line.
AgentRun(agent, flow_line) ==
    CASE agent = "raises" -> [raised |-> TRUE, img |-> None]
      [] agent = "returns_image" -> [raised |-> FALSE, img |-> Some(flow_line)]
      [] OTHER -> [raised |-> FALSE, img |-> None]

\* HandleAgentError with the exception raised again.
HandleAgentError_Reraises(r) == [escaped |-> TRUE, img |-> None]

\* The except clause of lines 159-161: the exception stops here.
HandleAgentError(r) == [escaped |-> FALSE, img |-> None]

\* The try statement around the call of line 156.
Tried(r) == IF r.raised THEN HandleAgentError(r) ELSE [escaped |-> FALSE, img |-> r.img]

\* Lines 155-158.
DiagramOf(agent, flow_line) ==
    IF Truthy(flow_line) THEN Tried(AgentRun(agent, flow_line))
    ELSE [escaped |-> FALSE, img |-> None]

\* Lines 151-161: diagram_img, and whether an exception left the try.
TryDiagram(agent, c) ==
    IF agent # "absent" /\ c.some /\ Truthy(c.val)
    THEN DiagramOf(agent, extract_arrow_flow(c.val))
    ELSE [escaped |-> FALSE, img |-> None]

\* SkipAfterPlaceholder with the continue outside the else branch.
SkipAfterPlaceholder_Always(img) == TRUE

\* Whether the section stops after the placeholder (line 166).
SkipAfterPlaceholder(img) == ~img.some

\* Usable with the test on colnames alone.
Usable_IgnoresRows(r) == r.ok /\ Truthy(r.colnames)

\* colnames and rows
Usable(r) == r.ok /\ Truthy(r.colnames) /\ Truthy(r.rows)

\* The chain of lines 175-180 over the interpreters' results, in order: the
\* first usable one, else the last one's.
FirstUsable(rs) ==
    IF \E k \in 1..Len(rs) : Usable(rs[k])
    THEN rs[CHOOSE k \in 1..Len(rs) : Usable(rs[k]) /\ \A j \in 1..(k - 1) : ~Usable(rs[j])]
    ELSE rs[Len(rs)]

\* Lines 174-180: the result the ladder ends with.
Ladder(value) ==
    FirstUsable(<<parse_markdown_table(value), parse_github_style_table(value),
                  parse_simple_pipe_table(value), parse_any_delim_table(value)>>)

\* Lines 181-184.
TableOrParagraph(r, value) ==
    IF Usable(r) THEN Table(r.colnames, r.rows) ELSE Paragraph(value)

\* Lines 171-184: the block one chunk adds.
RenderedChunk(chunk) ==
    IF chunk.typ = "text" THEN Paragraph(chunk.value)
    ELSE TableOrParagraph(Ladder(chunk.value), chunk.value)

\* sec_content or ""
OrEmpty(c) == IF c.some THEN c.val ELSE <<>>

\* No table written: the argument did not come from one.
NoTable == [colnames |-> <<>>, rows |-> <<>>, divider |-> FALSE]

IdleCall ==
    /\ arg = <<>>
    /\ orig = NoTable
    /\ ret = <<>>

StartBuild ==
    /\ doc = <<>>
    /\ i = 0
    /\ sec_content = None
    /\ chunks = <<>>
    /\ ci = 0
    /\ pc = "start"
    /\ IdleCall

\* Line 140.
AddMainHeading ==
    /\ pc = "start"
    /\ doc' = Append(doc, Heading(MainTitle, 0))
    /\ pc' = "loop"
    /\ UNCHANGED <<content, sections, flow_diagram_agent, i, sec_content, chunks, ci,
                   arg, orig, ret>>

\* Lines 142-147 and 169 for a section that is not the flow diagram.
OrdinarySection ==
    /\ pc = "loop"
    /\ i < Len(sections)
    /\ ~IsFlowDiagram(sections[i + 1].title)
    /\ doc' = Append(doc, Heading(Header(i, sections[i + 1].title), 1))
    /\ sec_content' = find_section_content(content, sections[i + 1].title)
    /\ chunks' = find_all_table_like_chunks(OrEmpty(sec_content'))
    /\ ci' = 0
    /\ pc' = "chunks"
    /\ UNCHANGED <<content, sections, flow_diagram_agent, i, arg, orig, ret>>

\* Lines 162-169 after the heading: the picture and on to the chunks, or the
\* placeholder and on to the next section.
AfterDiagram(d, headed) ==
    IF d.escaped
    THEN /\ doc' = headed
         /\ pc' = "raised"
         /\ UNCHANGED <<i, chunks>>
    ELSE /\ doc' = IF d.img.some
                   THEN Append(headed, Picture(d.img.val))
                   ELSE Append(headed, Paragraph(Placeholder))
         /\ IF SkipAfterPlaceholder(d.img)
            THEN /\ pc' = "loop"
                 /\ i' = i + 1
                 /\ UNCHANGED chunks
            ELSE /\ chunks' = find_all_table_like_chunks(OrEmpty(sec_content'))
                 /\ pc' = "chunks"
                 /\ UNCHANGED i

\* Lines 142-169 for a flow diagram section.
FlowDiagramSection ==
    /\ pc = "loop"
    /\ i < Len(sections)
    /\ IsFlowDiagram(sections[i + 1].title)
    /\ sec_content' = find_section_content(content, sections[i + 1].title)
    /\ AfterDiagram(TryDiagram(flow_diagram_agent, sec_content'),
                    Append(doc, Heading(Header(i, sections[i + 1].title), 1)))
    /\ ci' = 0
    /\ UNCHANGED <<content, sections, flow_diagram_agent, arg, orig, ret>>

\* Lines 170-184, one chunk.
RenderChunk ==
    /\ pc = "chunks"
    /\ ci < Len(chunks)
    /\ doc' = Append(doc, RenderedChunk(chunks[ci + 1]))
    /\ ci' = ci + 1
    /\ UNCHANGED <<content, sections, flow_diagram_agent, i, sec_content, chunks, pc,
                   arg, orig, ret>>

\* The chunk loop is over: on to the next section.
EndSection ==
    /\ pc = "chunks"
    /\ ci = Len(chunks)
    /\ i' = i + 1
    /\ pc' = "loop"
    /\ UNCHANGED <<content, sections, flow_diagram_agent, doc, sec_content, chunks, ci,
                   arg, orig, ret>>

\* Lines 186-187.
AddAttribution ==
    /\ pc = "loop"
    /\ i = Len(sections)
    /\ doc' = Append(doc, Paragraph(Attribution))
    /\ pc' = "done"
    /\ UNCHANGED <<content, sections, flow_diagram_agent, i, sec_content, chunks, ci,
                   arg, orig, ret>>

Next ==
    \/ AddMainHeading
    \/ OrdinarySection
    \/ FlowDiagramSection
    \/ RenderChunk
    \/ EndSection
    \/ AddAttribution

(* Inputs of the build: a few titles, names and contents *)

TitleAb == <<"A", "b">>

TitleFlow == <<"F", "l", "o", "w", " ", "D", "i", "a", "g", "r", "a", "m">>

TitleFlowLoud ==
    <<" ", "F", "L", "O", "W", " ", "d", "i", "a", "g", "r", "a", "m", TAB>>

TitlePool == {TitleAb, TitleFlow, TitleFlowLoud}

NamePool ==
    {<<" ", "a", "B">>, <<"a", " ", "b">>,
     <<"F", "L", "O", "W", " ", "D", "I", "A", "G", "R", "A", "M", " ">>}

ContentPool ==
    {<<>>, <<"x">>,
     <<"p", "-", ">", "q", NL, "|", "a", "|", "b", NL, "1", "|", "2">>}

Init ==
    /\ sections \in SeqsUpTo([title : TitlePool], MaxSections)
    /\ content \in SeqsUpTo([section_name : NamePool, content : ContentPool], MaxContent)
    /\ flow_diagram_agent \in Agents
    /\ StartBuild

Spec == Init /\ [][Next]_vars

(* The build over one section whose content is up to MaxLines lines of LinePool *)

LinePool ==
    {<<"|", " ", "a", "|", "b", " ", "|">>,
     <<"|", "-", "|", "-", "|">>,
     <<"c", "|", "d">>,
     <<"-", "|", "-">>,
     <<"|", TAB, " ", " ", "|">>,
     <<"x", "-", ">", "y">>,
     <<>>}

InitTables ==
    /\ \E t \in {TitleAb, TitleFlow} :
          /\ sections = <<[title |-> t]>>
          /\ \E ls \in SeqsFromTo(LinePool, 1, MaxLines) :
                content = <<[section_name |-> t, content |-> Join(ls, <<NL>>)]>>
    /\ flow_diagram_agent = "returns_image"
    /\ StartBuild

SpecTables == InitTables /\ [][Next]_vars

-----------------------------------------------------------------------------
(* find_all_table_like_chunks alone: every text over a small alphabet *)

ChunkAlphabet == {"a", "|", " ", NL}

IdleBuild ==
    /\ content = <<>>
    /\ sections = <<>>
    /\ flow_diagram_agent = "absent"
    /\ doc = <<>>
    /\ i = 0
    /\ sec_content = None
    /\ chunks = <<>>
    /\ ci = 0

InitChunker ==
    /\ IdleBuild
    /\ pc = "call"
    /\ arg \in SeqsUpTo(ChunkAlphabet, MaxTextLen)
    /\ orig = NoTable
    /\ ret = <<>>

CallChunker ==
    /\ pc = "call"
    /\ ret' = find_all_table_like_chunks(arg)
    /\ pc' = "returned"
    /\ UNCHANGED <<content, sections, flow_diagram_agent, doc, i, sec_content,
                   chunks, ci, arg, orig>>

SpecChunker == InitChunker /\ [][CallChunker]_vars

-----------------------------------------------------------------------------
(* parse_markdown_table alone: on tables written out, and on any lines *)

CellPool == {<<>>, <<"-">>, <<"a", " ", "b">>}

\* '| c1 | c2 | ... |'
WriteRow(cells) ==
    <<"|">> \o Concat([k \in 1..Len(cells) |-> <<" ">> \o cells[k] \o <<" ", "|">>])

\* '|---|---| ... |'
WriteDivider(n) == <<"|">> \o Concat([k \in 1..n |-> <<"-", "-", "-", "|">>])

WriteTable(t) ==
    Join(<<WriteRow(t.colnames)>>
         \o (IF t.divider THEN <<WriteDivider(Len(t.colnames))>> ELSE <<>>)
         \o [k \in 1..Len(t.rows) |-> WriteRow(t.rows[k])],
         <<NL>>)

\* The tables of 1..MaxCols columns and 1..MaxRows data rows over CellPool.
Tables ==
    UNION {[colnames : [1..n -> CellPool],
            rows : SeqsFromTo([1..n -> CellPool], 1, MaxRows),
            divider : BOOLEAN] : n \in 1..MaxCols}

InitMarkdown ==
    /\ IdleBuild
    /\ pc = "call"
    /\ ret = ParseNone
    /\ \/ /\ orig \in Tables
          /\ arg = WriteTable(orig)
       \/ /\ orig = NoTable
          /\ \E ls \in SeqsFromTo(LinePool, 1, MaxLines) : arg = Join(ls, <<NL>>)

CallParseMarkdown ==
    /\ pc = "call"
    /\ ret' = parse_markdown_table(arg)
    /\ pc' = "returned"
    /\ UNCHANGED <<content, sections, flow_diagram_agent, doc, i, sec_content,
                   chunks, ci, arg, orig>>

SpecMarkdown == InitMarkdown /\ [][CallParseMarkdown]_vars

-----------------------------------------------------------------------------
(* extract_arrow_flow alone: every text of up to MaxFlowToks tokens *)

FlowTokens ==
    {<<"a">>, <<"-", ">">>, <<BACKQUOTE>>, <<" ">>, <<TAB>>, <<NL>>, <<"#">>,
     <<"F", "l", "o", "w">>}

InitFlow ==
    /\ IdleBuild
    /\ pc = "call"
    /\ orig = NoTable
    /\ ret = <<>>
    /\ \E ts \in SeqsUpTo(FlowTokens, MaxFlowToks) : arg = Concat(ts)

CallExtractArrowFlow ==
    /\ pc = "call"
    /\ ret' = extract_arrow_flow(arg)
    /\ pc' = "returned"
    /\ UNCHANGED <<content, sections, flow_diagram_agent, doc, i, sec_content,
                   chunks, ci, arg, orig>>

SpecFlow == InitFlow /\ [][CallExtractArrowFlow]_vars

-----------------------------------------------------------------------------
(* Claims about find_all_table_like_chunks (SpecChunker) *)

\* [l.strip() for l in s.splitlines()]
StrippedLines(s) == StripAll(SplitLines(s))

\* C1: the lines of the chunk values, in order and each stripped, are exactly
\* the non-blank lines of the input, in order and each stripped; and no chunk
\* value is empty.
C1_ChunksAreTheNonBlankLines ==
    pc = "returned" =>
        /\ Concat([k \in 1..Len(ret) |-> StrippedLines(ret[k].value)])
              = NonBlank(StrippedLines(arg))
        /\ \A k \in 1..Len(ret) : ret[k].value # <<>>

\* A text with a blank line that gave a table chunk and a text chunk.
C1_Witness ==
    /\ pc = "returned"
    /\ \E k \in 1..Len(ret) : ret[k].typ = "table"
    /\ \E k \in 1..Len(ret) : ret[k].typ = "text"
    /\ \E k \in 1..Len(SplitLines(arg)) : Strip(SplitLines(arg)[k]) = <<>>

-----------------------------------------------------------------------------
(* Claims about parse_markdown_table (SpecMarkdown) *)

\* The characters a divider row is made of, bars apart.
DividerChars == {"-", ":"} \cup Whitespace

\* A cell that shows the row is no divider.
PlainCell(cell) == \E k \in 1..Len(cell) : cell[k] \notin DividerChars

Barred(l) == StartsWith(Strip(l), <<"|">>) /\ EndsWith(Strip(l), <<"|">>)

\* C10: a chunk with a non-blank line that is not enclosed in bars gives none.
C10_UnbarredLineGivesNone ==
    (/\ pc = "returned"
     /\ \E k \in 1..Len(SplitLines(arg)) :
           Strip(SplitLines(arg)[k]) # <<>> /\ ~Barred(SplitLines(arg)[k]))
    => ret = ParseNone

-----------------------------------------------------------------------------
(* Claims about extract_arrow_flow (SpecFlow) *)

\* A line with its surrounding backquotes and whitespace trimmed.
Trimmed(line) == StripChars(line, Whitespace \cup {BACKQUOTE})

TrimmedLines(ls) == [k \in 1..Len(ls) |-> Trimmed(ls[k])]

\* The result C6 describes, from the trimmed lines.
C6_Described(lines, text) ==
    IF \E k \in 1..Len(lines) : Qualifies(lines[k])
    THEN lines[CHOOSE k \in 1..Len(lines) :
                   Qualifies(lines[k]) /\ \A j \in 1..(k - 1) : ~Qualifies(lines[j])]
    ELSE IF Contains(text, Arrow) THEN Strip(text)
    ELSE <<>>

\* C6: the result is the first line, trimmed of surrounding backquotes and
\* whitespace, that holds an arrow and begins with no noise prefix; else the
\* whole text stripped if it holds an arrow; else empty.  It is empty exactly
\* when the text holds no arrow.
C6_FirstQualifyingLine ==
    pc = "returned" =>
        /\ ret = C6_Described(TrimmedLines(SplitLines(arg)), arg)
        /\ (ret = <<>>) <=> ~Contains(arg, Arrow)

-----------------------------------------------------------------------------
(* Claims about the table chunks of build_document (SpecTables) *)

\* The chunk loop has just rendered a table chunk: doc ends with its block.
TableChunkRendered == pc = "chunks" /\ ci > 0 /\ chunks[ci].typ = "table"

LastBlock == doc[Len(doc)]

\* What the four interpreters return for a chunk, in the order of the ladder.
Interpreted(value) ==
    <<parse_markdown_table(value), parse_github_style_table(value),
      parse_simple_pipe_table(value), parse_any_delim_table(value)>>

\* Non-none, columns non-empty, every row as long as the columns.
Valid(r) == r.ok /\ r.colnames # <<>> /\ AllLen(r.rows, Len(r.colnames))

\* Valid, and at least one data row.
WithRows(r) == Valid(r) /\ r.rows # <<>>

\* The block for `value` if the ladder stops at the first of the results
\* whose index is in good.
FirstGood(rs, good, value) ==
    IF good # {}
    THEN LET k == CHOOSE k \in good : \A j \in good : k <= j
         IN  Table(rs[k].colnames, rs[k].rows)
    ELSE Paragraph(value)

\* The block for `value` if the first valid result is rendered.
FirstValid(rs, value) == FirstGood(rs, {k \in 1..4 : Valid(rs[k])}, value)

\* The block for `value` if the first valid result with rows is rendered.
FirstWithRows(rs, value) == FirstGood(rs, {k \in 1..4 : WithRows(rs[k])}, value)

\* C2 as stated: the table is that of the first interpreter with a valid
\* result, so every earlier one returned none; the raw text is rendered only
\* when all four return none.
C2_FirstValidResultWins ==
    TableChunkRendered =>
        /\ LastBlock = FirstValid(Interpreted(chunks[ci].value), chunks[ci].value)
        /\ LastBlock.kind = "paragraph" =>
              \A k \in 1..4 : ~Interpreted(chunks[ci].value)[k].ok

\* C2 amended: the table is that of the first interpreter, in the fixed order,
\* whose result is valid and has at least one data row; the raw text is
\* rendered when no interpreter gives such a result.
C2_FirstResultWithRowsWins ==
    TableChunkRendered =>
        LastBlock = FirstWithRows(Interpreted(chunks[ci].value), chunks[ci].value)

\* A chunk of header and divider: the first interpreter returns a table with
\* no data row, and a later interpreter's table is rendered.
C2_Witness ==
    /\ TableChunkRendered
    /\ Valid(parse_markdown_table(chunks[ci].value))
    /\ LastBlock.kind = "table"
    /\ LastBlock.header # parse_markdown_table(chunks[ci].value).colnames

\* The cell counts of a line under the four splitting rules.
CellCounts(l) ==
    <<Len(SplitOn(StripChars(l, {"|"}), "|")), Len(SplitOn(l, "|")),
      Len(SplitOn(l, TAB)), Len(SplitSpaces(l))>>

\* Every line after the first disagrees with the first under every rule.
EveryRowDisagrees(lines) ==
    \A k \in 2..Len(lines) : \A r \in 1..4 :
        CellCounts(lines[k])[r] # CellCounts(lines[1])[r]

\* C5 as stated: a table chunk whose data rows all disagree with the header
\* under every splitting rule is rendered as a paragraph of the raw text.
C5_DisagreeingRowsAreProse ==
    (TableChunkRendered /\ EveryRowDisagrees(NonBlankLines(chunks[ci].value)))
    => LastBlock = Paragraph(chunks[ci].value)

\* C5 amended: the same, for a chunk whose first line is not a divider line
\* (dashes separated by bars).
C5_DisagreeingRowsUnderHeaderAreProse ==
    (/\ TableChunkRendered
     /\ EveryRowDisagrees(NonBlankLines(chunks[ci].value))
     /\ ~GithubDivider(NonBlankLines(chunks[ci].value)[1]))
    => LastBlock = Paragraph(chunks[ci].value)

\* Such a chunk, of a barred header and a row, rendered as a paragraph.
C5_Witness ==
    /\ TableChunkRendered
    /\ EveryRowDisagrees(NonBlankLines(chunks[ci].value))
    /\ ~GithubDivider(NonBlankLines(chunks[ci].value)[1])
    /\ Barred(NonBlankLines(chunks[ci].value)[1])
    /\ LastBlock = Paragraph(chunks[ci].value)

-----------------------------------------------------------------------------
(* Claims about the structure of the document (Spec) *)

IsLevel1(b) == b.kind = "heading" /\ b.level = 1

IsAttribution(b) == b = Paragraph(Attribution)

\* The positions in doc of the level-1 headings, in order.
Level1Pos ==
    Pick([p \in 1..Len(doc) |-> p], {p \in 1..Len(doc) : IsLevel1(doc[p])})

\* The blocks from the k-th level-1 heading up to the next one, or to the
\* attribution paragraph, or to the end of doc.
SectionBlocks(k) ==
    SubSeq(doc, Level1Pos[k],
           IF k < Len(Level1Pos) THEN Level1Pos[k + 1] - 1
           ELSE IF pc = "done" THEN Len(doc) - 1
           ELSE Len(doc))

\* The number of sections whose heading has been added.
Begun ==
    CASE pc = "start" -> 0
      [] pc = "loop" -> i
      [] pc = "done" -> Len(sections)
      [] OTHER -> i + 1

\* '{k}. {title}' for the k-th section, k counted from 1.
Numbered(k) == IntStr(k) \o <<".", " ">> \o sections[k].title

C7_Shape ==
    /\ pc # "start" => doc[1] = Heading(MainTitle, 0)
    /\ Cardinality({p \in 1..Len(doc) : doc[p].kind = "heading" /\ doc[p].level = 0})
          = IF pc = "start" THEN 0 ELSE 1
    /\ Len(Level1Pos) = Begun
    /\ \A k \in 1..Len(Level1Pos) : doc[Level1Pos[k]].text = Numbered(k)
    /\ Cardinality({p \in 1..Len(doc) : IsAttribution(doc[p])})
          = IF pc = "done" THEN 1 ELSE 0
    /\ pc = "done" => IsAttribution(doc[Len(doc)])

\* C7: the document starts with the one title heading, ends (once built) with
\* the one attribution paragraph, and holds one level-1 heading per section,
\* in order, numbered from 1; blocks are only ever added at the end, so what a
\* section adds lies between its heading and the next.
C7_HeadingsInOrder ==
    /\ []C7_Shape
    /\ [][Len(doc') >= Len(doc) /\ SubSeq(doc', 1, Len(doc)) = doc]_vars

\* A built document of two sections, the first with blocks under its heading.
C7_Witness ==
    /\ pc = "done"
    /\ Len(sections) = 2
    /\ Len(SectionBlocks(1)) > 1
    /\ sections[1] # sections[2]

\* No content entry has the title for name, case and surrounding whitespace
\* ignored.
NoEntryMatches(title) ==
    \A e \in 1..Len(content) :
        Lower(Strip(content[e].section_name)) # Lower(Strip(title))

\* C8 as stated: a section (1..i are complete) whose title matches no content
\* entry has its heading and nothing else.
C8_UnmatchedSectionIsHeadingOnly ==
    \A k \in 1..i :
        NoEntryMatches(sections[k].title) => Len(SectionBlocks(k)) = 1

\* C8 amended: a section that is not a flow diagram section and whose title
\* matches no content entry has its heading and nothing else; a flow diagram
\* section without matching content has its heading and the placeholder.
C8_UnmatchedOrdinarySectionIsHeadingOnly ==
    \A k \in 1..i :
        NoEntryMatches(sections[k].title) =>
            IF IsFlowDiagram(sections[k].title)
            THEN SectionBlocks(k) = <<Heading(Numbered(k), 1), Paragraph(Placeholder)>>
            ELSE SectionBlocks(k) = <<Heading(Numbered(k), 1)>>

\* A complete ordinary section with no match, beside an entry with content.
C8_Witness ==
    \E k \in 1..i :
        /\ ~IsFlowDiagram(sections[k].title)
        /\ NoEntryMatches(sections[k].title)
        /\ \E e \in 1..Len(content) : content[e].content # <<>>
        /\ Len(SectionBlocks(k)) = 1

\* The content the k-th section resolves to.
ContentOf(k) == find_section_content(content, sections[k].title)

\* Whether the flow diagram section k got an image: an agent that returns
\* one, content, and a flow line in it.
ImageObtained(k) ==
    /\ flow_diagram_agent = "returns_image"
    /\ ContentOf(k).some
    /\ Contains(ContentOf(k).val, Arrow)

\* What an ordinary section renders under its heading for this content.
OrdinaryBody(c) ==
    LET cs == find_all_table_like_chunks(c)
    IN  [k \in 1..Len(cs) |-> RenderedChunk(cs[k])]

\* C9: a complete flow diagram section without image is its heading and the
\* placeholder; with an image it is its heading, the image, and then what an
\* ordinary section renders for the same content.
C9_ContentOnlyBelowAnImage ==
    \A k \in 1..i :
        IsFlowDiagram(sections[k].title) =>
            IF ImageObtained(k)
            THEN /\ Len(SectionBlocks(k)) >= 2
                 /\ SectionBlocks(k)[1] = Heading(Numbered(k), 1)
                 /\ SectionBlocks(k)[2].kind = "picture"
                 /\ SubSeq(SectionBlocks(k), 3, Len(SectionBlocks(k)))
                       = OrdinaryBody(ContentOf(k).val)
            ELSE SectionBlocks(k) = <<Heading(Numbered(k), 1), Paragraph(Placeholder)>>

\* A complete flow diagram section with its image and a table below it.
C9_Witness ==
    \E k \in 1..i :
        /\ IsFlowDiagram(sections[k].title)
        /\ ImageObtained(k)
        /\ \E b \in 3..Len(SectionBlocks(k)) : SectionBlocks(k)[b].kind = "table"

\* C4: with an agent that raises on every call, no exception leaves the
\* build, every complete flow diagram section is its heading and the
\* placeholder, the build is at a step from which it goes on until it is
\* done, and the built document has the heading of every section and ends
\* with the attribution.
C4_RaisingAgentGivesPlaceholder ==
    flow_diagram_agent = "raises" =>
        /\ pc \in {"start", "loop", "chunks", "done"}
        /\ i <= Len(sections) /\ ci <= Len(chunks)
        /\ \A k \in 1..i :
              IsFlowDiagram(sections[k].title) =>
                  SectionBlocks(k) = <<Heading(Numbered(k), 1), Paragraph(Placeholder)>>
        /\ pc = "done" =>
              /\ Len(Level1Pos) = Len(sections)
              /\ IsAttribution(doc[Len(doc)])

\* A built document whose first section is a flow diagram section on which
\* the agent was called (and raised), followed by an ordinary section.
C4_Witness ==
    /\ flow_diagram_agent = "raises"
    /\ pc = "done"
    /\ Len(sections) = 2
    /\ IsFlowDiagram(sections[1].title)
    /\ ContentOf(1).some
    /\ Contains(ContentOf(1).val, Arrow)
    /\ ~IsFlowDiagram(sections[2].title)

=============================================================================
